---- MODULE Spec2Model ----
(***************************************************************************)
(* Publisher engine of the pub/sub protocol (processes/pub/src/lib.rs)     *)
(* together with its bounded message history (pub/src/history.rs).         *)
(*                                                                         *)
(* One publisher process is modelled.  Every action is one message taken   *)
(* from await_message() and handled to completion by handle_message /      *)
(* handle_request.  `sent` holds, in order, what the handler of the last   *)
(* message handed to the runtime (responses and requests), `lastMsg` the   *)
(* message it handled and `lastResult` whether the handler returned        *)
(* Ok(()) or Err.                                                          *)
(***************************************************************************)
EXTENDS Integers, Sequences, FiniteSets, TLC

\* ---------------------------------------------------------------- bounds
\* largest max_length a persistence policy is configured with (0..MaxLen)
MaxLen == 2
\* accepted publishes are modelled while last_sequence < MaxSeq
MaxSeq == 3
\* processes the coordinators spawn for one topic (Pub) or in all (Sub)
MaxEngines == 2

\* ------------------------------------------------------- input alphabets
Addrs == {"app", "s1"}
\* senders of the init message
InitSources == {"app"}
Topics == {"t", "u"}
\* topic named by the init message
InitTopics == {"t"}

\* Bytes are kept as a record: either opaque bytes named by `content`, or
\* bytes that are the serde_json text of a history Message {sequence,
\* content}.  The distinction is what serde_json::from_slice::<Message>
\* observes.
RawBytes(c) == [json |-> FALSE, sequence |-> 0, content |-> c]
JsonMessageBytes(s, c) == [json |-> TRUE, sequence |-> s, content |-> c]
EmptyBytes == RawBytes("")
\* blobs a Publish request can carry; a request without a blob is published
\* as EmptyBytes, which like any other non-JSON payload is not the text of a
\* Message
Payloads == {JsonMessageBytes(1, "a")}
\* get_blob() is None
NoBlob == [json |-> FALSE, sequence |-> 0, content |-> "<no blob>"]

\* Option<u64>
NoneSeq == << >>
SomeSeq(n) == << n >>
FromSequences == {NoneSeq} \cup {SomeSeq(n) : n \in 1..MaxSeq}
\* sequence field of an incoming PublishRequest (Pub::publish sends 0)
SenderSeqs == {0}

PersistenceNone == [tier |-> "None", max |-> 0]
PersistenceMemory(n) == [tier |-> "Memory", max |-> n]
PersistenceDisk(n) == [tier |-> "Disk", max |-> n]
Persistences ==
    {PersistenceNone} \cup {PersistenceMemory(n) : n \in 0..MaxLen}
                      \cup {PersistenceDisk(n) : n \in 0..MaxLen}

\* senders of an init message that are not `app`: a process of the same
\* package on another node, a process of another package on the same node,
\* and a process of another package on another node
RemoteSamePackage == "app@remote"
LocalOtherPackage == "other"
RemoteOtherPackage == "other@remote"
ForeignSources == {RemoteSamePackage, LocalOtherPackage, RemoteOtherPackage}
\* the addresses that may become unreachable
OfflineCandidates == {"s1"}

\* phase       Uninitialized / Active / Terminated (init() of the process)
\* state       the PublisherState
\* lastMsg     the message handled last
\* prev        the PublisherState as it was when lastMsg arrived
\* sent        what the handler of lastMsg sent, in order
\* lastResult  TRUE iff that handler returned Ok(())
\* published   the payloads of the Publish requests accepted so far, in
\*             order (history variable: the code keeps no such list)
\* onExit      the publisher's OnExit setting (spawned with Restart)
\* offline     the addresses that cannot be reached at present
\* sendErrors  the addresses for which a SendError is on its way back
\* storeFault  the store call that returned an error while lastMsg was
\*             handled, and for kv.get the keys it failed on
\* streams     for each address whose last request was a successful
\*             Subscribe with from_sequence, the sequence number of the last
\*             Publish sent to it since then and before lastMsg was
\*             handled, 0 if none; NoStream for any other address (history
\*             variable, kept only in the specifications that start with
\*             it, Untracked in the others)
VARIABLES phase, state, prev, lastMsg, sent, lastResult, published,
          onExit, offline, sendErrors, storeFault, streams
pubVars == << phase, state, prev, lastMsg, sent, lastResult, published,
              onExit, offline, sendErrors, storeFault, streams >>

\* the subscriber engine (processes/sub)
\* subPhase      Uninitialized / Active / Terminated (init() of the process)
\* subscription  the Subscription
\* subMsg        the message the subscriber handled last
\* subPrev       the Subscription as it was when subMsg arrived
\* subSent       what the handler of subMsg sent, in order
\* subResult     TRUE iff that handler returned Ok(())
\* subOnExit     the subscriber's OnExit setting (spawned with Restart)
\* saved         the persisted process state (set_state / clear_state)
\* answered      what the publisher answered to the Subscribe of the
\*               subscriber's initialization
VARIABLES subPhase, subscription, subPrev, subMsg, subSent, subResult,
          subOnExit, saved, answered
subVars == << subPhase, subscription, subPrev, subMsg, subSent, subResult,
              subOnExit, saved, answered >>

\* the two engines together
\* inflight   the Publish requests the publisher sent to the subscriber
\*            that have not arrived yet, oldest first
\* forwarded  the sequence numbers the subscriber forwarded to its parent
\*            (history variable)
\* owed       the sequence numbers the publisher accepted while the
\*            subscriber was subscribed and Active (history variable)
VARIABLES inflight, forwarded, owed
sysVars == << inflight, forwarded, owed >>

\* the coordinators of the library (Pub and Sub) in the parent process
\* pubs       the Pub: its registry publishers, and the publisher processes
\*            spawned and sent Kill so far
\* subs       the Sub: its registry subscriptions, and the subscriber
\*            processes spawned so far
\* coordPrev  pubs and subs before the last call
\* coordOp    the last call, what it sent and what it returned
VARIABLES pubs, subs, coordPrev, coordOp
coordVars == << pubs, subs, coordPrev, coordOp >>

vars == << pubVars, subVars, sysVars, coordVars >>

\* the store calls of add_message that can return an error
StoreFaults == {"delete", "set"}
\* the store call that failed during a handler
Fault(call, keys) == [call |-> call, keys |-> keys]
NoFault == Fault("none", {})
\* the address of the subscriber engine, and every address a Publish of
\* the publisher can go to
SubAddr == "sub"
Targets == Addrs \cup {SubAddr}
NoStream == -1
\* the last request of the address that the publisher accepted was an
\* Unsubscribe
Unsubscribed == -3
NoStreams == [a \in Targets |-> NoStream]
Untracked == [a \in Targets |-> -2]

\* ------------------------------------------------------- MessageHistory
Message(s, c) == [sequence |-> s, content |-> c]
Full(m) == [full |-> TRUE, sequence |-> m.sequence, content |-> m.content]
SequenceOnly(s) == [full |-> FALSE, sequence |-> s, content |-> EmptyBytes]

Ok(v) == [ok |-> TRUE, val |-> v]
Err(v) == [ok |-> FALSE, val |-> v]

\* the durable store: a function from the keys it holds to their values
EmptyKv == [k \in {} |-> EmptyBytes]
KvSet(kv, k, v) == [x \in (DOMAIN kv) \cup {k} |-> IF x = k THEN v ELSE kv[x]]
KvDelete(kv, k) == [x \in (DOMAIN kv) \ {k} |-> kv[x]]
KvGet(kv, k, badKeys) ==
    IF k \in DOMAIN kv /\ k \notin badKeys THEN Ok(kv[k]) ELSE Err(EmptyBytes)

\* serde_json::from_slice::<Message>(bytes)
FromSliceMessage(bytes) ==
    IF bytes.json THEN Ok(Message(bytes.sequence, RawBytes(bytes.content)))
    ELSE Err(Message(0, EmptyBytes))

MessageHistoryNew(persistence) ==
    [entries |-> << >>, persistence |-> persistence, kv |-> EmptyKv]

\* add_message with a store whose delete fails on a key it does not hold
AddMessageStrictDelete(h, sequence, content, fault) ==
    LET message == Message(sequence, content)
        atCap == Len(h.entries) >= h.persistence.max
        popped == IF atCap /\ h.entries # << >> THEN Tail(h.entries) ELSE h.entries
    IN CASE h.persistence.tier = "None" -> Ok(h)
         [] h.persistence.tier = "Memory" ->
              Ok([h EXCEPT !.entries = Append(popped, Full(message))])
         [] h.persistence.tier = "Disk" ->
              LET deletes == atCap /\ h.entries # << >> /\ ~ Head(h.entries).full
                  kvDel == IF deletes THEN KvDelete(h.kv, Head(h.entries).sequence)
                           ELSE h.kv
              IN IF deletes /\ (fault = "delete"
                                \/ Head(h.entries).sequence \notin DOMAIN h.kv)
                 THEN Err([h EXCEPT !.entries = popped])
                 ELSE IF fault = "set"
                 THEN Err([h EXCEPT !.entries = popped, !.kv = kvDel])
                 ELSE Ok([h EXCEPT !.entries = Append(popped, SequenceOnly(sequence)),
                                   !.kv = KvSet(kvDel, sequence, content)])
\* add_message: returns Ok/Err and the history as the call leaves it.
\* `fault` names the store call that fails in this call: "none", "delete"
\* or "set"
AddMessage(h, sequence, content, fault) ==
    LET message == Message(sequence, content)
        atCap == Len(h.entries) >= h.persistence.max
        popped == IF atCap /\ h.entries # << >> THEN Tail(h.entries) ELSE h.entries
    IN CASE h.persistence.tier = "None" -> Ok(h)
         [] h.persistence.tier = "Memory" ->
              Ok([h EXCEPT !.entries = Append(popped, Full(message))])
         [] h.persistence.tier = "Disk" ->
              LET deletes == atCap /\ h.entries # << >> /\ ~ Head(h.entries).full
                  kvDel == IF deletes THEN KvDelete(h.kv, Head(h.entries).sequence)
                           ELSE h.kv
              IN IF deletes /\ fault = "delete"
                 THEN Err([h EXCEPT !.entries = popped])
                 ELSE IF fault = "set"
                 THEN Err([h EXCEPT !.entries = popped, !.kv = kvDel])
                 ELSE Ok([h EXCEPT !.entries = Append(popped, SequenceOnly(sequence)),
                                   !.kv = KvSet(kvDel, sequence, content)])

RECURSIVE DiskRead(_, _, _, _, _)
DiskRead(h, start_sequence, badKeys, i, result) ==
    IF i > Len(h.entries) THEN Ok(result)
    ELSE LET entry == h.entries[i]
             got == KvGet(h.kv, entry.sequence, badKeys)
             parsed == FromSliceMessage(got.val)
         IN IF ~ entry.full /\ entry.sequence >= start_sequence /\ got.ok
            THEN IF parsed.ok
                 THEN DiskRead(h, start_sequence, badKeys, i + 1, Append(result, parsed.val))
                 ELSE Err(<< >>)
            ELSE DiskRead(h, start_sequence, badKeys, i + 1, result)

\* get_messages_from
GetMessagesFrom(h, start_sequence, badKeys) ==
    CASE h.persistence.tier = "None" -> Ok(<< >>)
      [] h.persistence.tier = "Memory" ->
           Ok(SelectSeq([i \in 1..Len(h.entries) |->
                            Message(h.entries[i].sequence, h.entries[i].content)],
                        LAMBDA m : m.sequence >= start_sequence))
      [] h.persistence.tier = "Disk" -> DiskRead(h, start_sequence, badKeys, 1, << >>)

HistoryLen(h) == Len(h.entries)



\* PublisherState::new building the history with the default policy of
\* PubConfig::default() instead of the configured one
PublisherStateNewDefaultTier(config, parent, topic) ==
    [topic |-> topic,
     config |-> config,
     last_sequence |-> 0,
     subscribers |-> {},
     offline_subscribers |-> {},
     parent |-> parent,
     message_history |-> MessageHistoryNew(PersistenceMemory(1000))]
\* ------------------------------------------------------ PublisherState
\* PublisherState::new
PublisherStateNew(config, parent, topic) ==
    [topic |-> topic,
     config |-> config,
     last_sequence |-> 0,
     subscribers |-> {},
     offline_subscribers |-> {},
     parent |-> parent,
     message_history |-> MessageHistoryNew(config.default_persistence)]

\* value of `state` while no PublisherState exists yet
NoState == PublisherStateNew([default_persistence |-> PersistenceNone], "app", "t")

\* node and package of an address (Address::node, Address::package_id)
OurNode == "our.os"
OurPackage == "pubsub:pkg"
NodeOf(a) ==
    IF a \in {RemoteSamePackage, RemoteOtherPackage} THEN "remote.os" ELSE OurNode
PackageOf(a) ==
    IF a \in {LocalOtherPackage, RemoteOtherPackage} THEN "other:pkg" ELSE OurPackage

\* ------------------------------------------------------------ messages
NoError == << >>
TopicError(requested, has) ==
    << "error: publisher does not have requested topic: ", requested, ", has: ", has >>

\* Response::new().body(SubscribeResponse {..}).send(): goes to the source
\* of the request being handled
SubscribeResponse(to, success, topic, error) ==
    [kind |-> "SubscribeResponse", to |-> to, success |-> success, topic |-> topic,
     error |-> error, sequence |-> 0, blob |-> NoBlob]
\* Request::to(to).body(PubRequest::Publish(..)).blob_bytes(bytes).send()
PublishTo(to, topic, sequence, bytes) ==
    [kind |-> "Publish", to |-> to, success |-> TRUE, topic |-> topic,
     error |-> NoError, sequence |-> sequence, blob |-> bytes]

Incoming(kind, source, topic, from_sequence, sequence, blob) ==
    [kind |-> kind, source |-> source, topic |-> topic,
     from_sequence |-> from_sequence, sequence |-> sequence, blob |-> blob]

\* result of a handler: the state it leaves, what it sent, Ok or Err
Handled(st, out, ok) == [state |-> st, sent |-> out, ok |-> ok]

\* all enumerations of a finite set (HashSet iteration order is unspecified)
Orders(S) ==
    {f \in [1..Cardinality(S) -> S] : \A i, j \in 1..Cardinality(S) : f[i] = f[j] => i = j}


\* Subscribe registering the source before looking at the topic
HandleSubscribeAnyTopic(st, source, topic, from_sequence, badKeys) ==
    LET success == st.topic = topic
        st1 == [st EXCEPT !.subscribers = @ \cup {source}]
        error == IF success THEN NoError ELSE TopicError(topic, st.topic)
        res == SubscribeResponse(source, success, topic, error)
        messages == GetMessagesFrom(st1.message_history, from_sequence[1], badKeys)
    IN IF success /\ from_sequence # NoneSeq
       THEN IF messages.ok
            THEN Handled(st1,
                         << res >> \o [i \in 1..Len(messages.val) |->
                             PublishTo(source, st1.topic, messages.val[i].sequence,
                                       messages.val[i].content)],
                         TRUE)
            ELSE Handled(st1, << res >>, FALSE)
       ELSE Handled(st1, << res >>, TRUE)
\* ------------------------------------------------------ handle_request
\* PubRequest::Subscribe
HandleSubscribe(st, source, topic, from_sequence, badKeys) ==
    LET success == st.topic = topic
        st1 == IF success THEN [st EXCEPT !.subscribers = @ \cup {source}] ELSE st
        error == IF success THEN NoError ELSE TopicError(topic, st.topic)
        res == SubscribeResponse(source, success, topic, error)
        messages == GetMessagesFrom(st1.message_history, from_sequence[1], badKeys)
    IN IF success /\ from_sequence # NoneSeq
       THEN IF messages.ok
            THEN Handled(st1,
                         << res >> \o [i \in 1..Len(messages.val) |->
                             PublishTo(source, st1.topic, messages.val[i].sequence,
                                       messages.val[i].content)],
                         TRUE)
            ELSE Handled(st1, << res >>, FALSE)
       ELSE Handled(st1, << res >>, TRUE)


\* Unsubscribe answering failure to an address that is not subscribed
HandleUnsubscribeStrict(st, source, topic) ==
    LET success == st.topic = topic /\ source \in st.subscribers
        st1 == IF success THEN [st EXCEPT !.subscribers = @ \ {source}] ELSE st
        error == IF success THEN NoError ELSE TopicError(topic, st.topic)
    IN Handled(st1, << SubscribeResponse(source, success, topic, error) >>, TRUE)

\* Unsubscribe that never looks at the topic (the behaviour of the older
\* multi-topic revision, pub/src/lib.rs:151-164): always success
HandleUnsubscribeAlwaysOk(st, source, topic) ==
    Handled([st EXCEPT !.subscribers = @ \ {source}],
            << SubscribeResponse(source, TRUE, topic, NoError) >>, TRUE)
\* Unsubscribe answering without removing the source
HandleUnsubscribeKeeps(st, source, topic) ==
    LET success == st.topic = topic
        error == IF success THEN NoError ELSE TopicError(topic, st.topic)
    IN Handled(st, << SubscribeResponse(source, success, topic, error) >>, TRUE)
\* PubRequest::Unsubscribe
HandleUnsubscribe(st, source, topic) ==
    LET success == st.topic = topic
        st1 == IF success THEN [st EXCEPT !.subscribers = @ \ {source}] ELSE st
        error == IF success THEN NoError ELSE TopicError(topic, st.topic)
    IN Handled(st1, << SubscribeResponse(source, success, topic, error) >>, TRUE)


\* Publish fanning out the request as it came in (pub_msg.sequence never set
\* to new_seq)
HandlePublishStale(st, source, topic, blob, fault, order) ==
    IF source = st.parent
    THEN LET new_seq == st.last_sequence + 1
             bytes == IF blob # NoBlob THEN blob ELSE EmptyBytes
             added == AddMessage(st.message_history, new_seq, bytes, fault)
             st1 == [st EXCEPT !.last_sequence = new_seq, !.message_history = added.val]
         IN IF added.ok
            THEN Handled(st1,
                         [i \in 1..Len(order) |-> PublishTo(order[i], topic, 0, bytes)],
                         TRUE)
            ELSE Handled(st1, << >>, FALSE)
    ELSE Handled(st, << >>, TRUE)

\* Publish without the source == parent check
HandlePublishAnySource(st, source, topic, blob, fault, order) ==
    LET new_seq == st.last_sequence + 1
        bytes == IF blob # NoBlob THEN blob ELSE EmptyBytes
        added == AddMessage(st.message_history, new_seq, bytes, fault)
        st1 == [st EXCEPT !.last_sequence = new_seq, !.message_history = added.val]
    IN IF added.ok
       THEN Handled(st1,
                    [i \in 1..Len(order) |-> PublishTo(order[i], topic, new_seq, bytes)],
                    TRUE)
       ELSE Handled(st1, << >>, FALSE)
\* Publish whose fan-out stops after its first send
HandlePublishFirstOnly(st, source, topic, blob, fault, order) ==
    IF source = st.parent
    THEN LET new_seq == st.last_sequence + 1
             bytes == IF blob # NoBlob THEN blob ELSE EmptyBytes
             added == AddMessage(st.message_history, new_seq, bytes, fault)
             st1 == [st EXCEPT !.last_sequence = new_seq, !.message_history = added.val]
         IN IF added.ok
            THEN Handled(st1,
                         [i \in 1..(IF Len(order) > 0 THEN 1 ELSE 0) |->
                             PublishTo(order[i], topic, new_seq, bytes)],
                         TRUE)
            ELSE Handled(st1, << >>, FALSE)
    ELSE Handled(st, << >>, TRUE)

\* Publish whose fan-out waits for each subscriber: it gets no further than
\* the first subscriber that cannot be reached
HandlePublishAwaiting(st, source, topic, blob, fault, order) ==
    IF source = st.parent
    THEN LET new_seq == st.last_sequence + 1
             bytes == IF blob # NoBlob THEN blob ELSE EmptyBytes
             added == AddMessage(st.message_history, new_seq, bytes, fault)
             st1 == [st EXCEPT !.last_sequence = new_seq, !.message_history = added.val]
             reached == {n \in 0..Len(order) :
                           \A i \in 1..n : \A j \in 1..(i - 1) : order[j] \notin offline}
             last == CHOOSE n \in reached : \A m \in reached : m <= n
         IN IF added.ok
            THEN Handled(st1,
                         [i \in 1..last |-> PublishTo(order[i], topic, new_seq, bytes)],
                         last = Len(order))
            ELSE Handled(st1, << >>, FALSE)
    ELSE Handled(st, << >>, TRUE)
\* Publish fanning out before it stores the message
HandlePublishSendsFirst(st, source, topic, blob, fault, order) ==
    IF source = st.parent
    THEN LET new_seq == st.last_sequence + 1
             bytes == IF blob # NoBlob THEN blob ELSE EmptyBytes
             added == AddMessage(st.message_history, new_seq, bytes, fault)
             st1 == [st EXCEPT !.last_sequence = new_seq, !.message_history = added.val]
         IN Handled(st1,
                    [i \in 1..Len(order) |-> PublishTo(order[i], topic, new_seq, bytes)],
                    added.ok)
    ELSE Handled(st, << >>, TRUE)

\* PubRequest::Publish; `order` is the iteration order of state.subscribers
HandlePublish(st, source, topic, blob, fault, order) ==
    IF source = st.parent
    THEN LET new_seq == st.last_sequence + 1
             bytes == IF blob # NoBlob THEN blob ELSE EmptyBytes
             added == AddMessage(st.message_history, new_seq, bytes, fault)
             st1 == [st EXCEPT !.last_sequence = new_seq, !.message_history = added.val]
         IN IF added.ok
            THEN Handled(st1,
                         [i \in 1..Len(order) |-> PublishTo(order[i], topic, new_seq, bytes)],
                         TRUE)
            ELSE Handled(st1, << >>, FALSE)
    ELSE Handled(st, << >>, TRUE)

\* ------------------------------------------------------------- actions
PubInit ==
    /\ phase = "Uninitialized"
    /\ state = NoState
    /\ prev = NoState
    /\ lastMsg = Incoming("None", "app", "t", NoneSeq, 0, NoBlob)
    /\ sent = << >>
    /\ lastResult = TRUE
    /\ published = << >>
    /\ onExit = "Restart"
    /\ offline = {}
    /\ sendErrors = {}
    /\ storeFault = NoFault

\* the sequence numbers of the Publish requests among `out` that go to a
SentTo(out, a) ==
    LET to_a == SelectSeq(out, LAMBDA m : m.kind = "Publish" /\ m.to = a)
    IN [i \in 1..Len(to_a) |-> to_a[i].sequence]

\* streams[a] brought up to date with what the last handler sent
StreamEnd(a) ==
    LET now == SentTo(sent, a)
    IN IF streams[a] >= 0 /\ now # << >> THEN now[Len(now)] ELSE streams[a]

\* PublisherState::load with no saved state, on the init message `source`
\* sent; parsed says whether its body is an InitPubRequest.  init() enters
\* the loop on Ok, and on Err sets OnExit::None and returns
Load(source, parsed, topic, persistence) ==
    LET wrong == NodeOf(source) # OurNode /\ PackageOf(source) # OurPackage
        failed == wrong \/ ~ parsed
    IN /\ phase' = IF failed THEN "Terminated" ELSE "Active"
       /\ state' = IF failed THEN state
                   ELSE PublisherStateNew([default_persistence |-> persistence],
                                          source, topic)
       /\ onExit' = IF failed THEN "None" ELSE onExit
       /\ lastMsg' = Incoming(IF parsed THEN "Init" ELSE "Malformed",
                              source, topic, NoneSeq, 0, NoBlob)
       /\ lastResult' = ~ failed
       /\ prev' = state
       /\ sent' = << >>
       /\ storeFault' = NoFault
       /\ streams' = [a \in Targets |-> StreamEnd(a)]
       /\ UNCHANGED << published, offline, sendErrors >>
       /\ UNCHANGED << subVars, sysVars, coordVars >>

\* the init message of the coordinator (Pub::new_topic)
LoadInit ==
    /\ phase = "Uninitialized"
    /\ \E source \in InitSources, topic \in InitTopics, persistence \in Persistences :
         Load(source, TRUE, topic, persistence)

\* an InitPubRequest from a process of another node or package
LoadInitForeign ==
    /\ phase = "Uninitialized"
    /\ \E source \in ForeignSources, topic \in InitTopics, persistence \in Persistences :
         Load(source, TRUE, topic, persistence)

\* a first message whose body is not an InitPubRequest
LoadInitMalformed ==
    /\ phase = "Uninitialized"
    /\ \E source \in InitSources \cup ForeignSources :
         Load(source, FALSE, "t", PersistenceNone)

\* one pass of the loop in init(): handle_message on `msg` with outcome h,
\* during which the store call f failed.
\* send() hands a request to the runtime and returns; a SendError for a
\* Publish that cannot be delivered comes back later as a message
PubHandle(msg, h, f) ==
    /\ prev' = state
    /\ storeFault' = f
    /\ streams' =
          IF streams = Untracked THEN streams
          ELSE [a \in Targets |->
                  IF msg.kind \in {"Subscribe", "Unsubscribe"} /\ msg.source = a
                  THEN IF msg.topic # state.topic
                       THEN IF streams[a] = Unsubscribed THEN Unsubscribed ELSE NoStream
                       ELSE IF msg.kind = "Unsubscribe" THEN Unsubscribed
                       ELSE IF msg.from_sequence # NoneSeq THEN 0 ELSE NoStream
                  ELSE StreamEnd(a)]
    /\ state' = h.state
    /\ sent' = h.sent
    /\ lastResult' = h.ok
    /\ lastMsg' = msg
    /\ sendErrors' = sendErrors \cup
          {h.sent[i].to : i \in {j \in 1..Len(h.sent) :
                                   h.sent[j].kind = "Publish" /\ h.sent[j].to \in offline}}
    /\ UNCHANGED << phase, onExit, offline >>

\* the same while the subscriber modelled here does nothing
Handle(msg, h, f) == PubHandle(msg, h, f) /\ UNCHANGED << subVars, sysVars, coordVars >>

Apply(msg, h) == Handle(msg, h, NoFault)

RecvSubscribe ==
    /\ phase = "Active"
    /\ \E source \in Addrs, topic \in Topics, from_sequence \in FromSequences :
         Apply(Incoming("Subscribe", source, topic, from_sequence, 0, NoBlob),
               HandleSubscribe(state, source, topic, from_sequence, {}))
    /\ UNCHANGED published

RecvUnsubscribe ==
    /\ phase = "Active"
    /\ \E source \in Addrs, topic \in Topics :
         Apply(Incoming("Unsubscribe", source, topic, NoneSeq, 0, NoBlob),
               HandleUnsubscribe(state, source, topic))
    /\ UNCHANGED published

RecvPublish ==
    /\ phase = "Active"
    /\ \E source \in Addrs \cup {state.parent}, topic \in Topics, sequence \in SenderSeqs,
          blob \in Payloads \cup {NoBlob}, order \in Orders(state.subscribers) :
         /\ source = state.parent => Len(published) < MaxSeq
         /\ Apply(Incoming("Publish", source, topic, NoneSeq, sequence, blob),
                  HandlePublish(state, source, topic, blob, "none", order))
         /\ published' = IF source = state.parent
                         THEN Append(published, IF blob # NoBlob THEN blob ELSE EmptyBytes)
                         ELSE published

\* Kill that leaves the process running
RecvKillKeepsRunning ==
    /\ phase = "Active"
    /\ \E source \in Addrs \cup {state.parent} :
         lastMsg' = Incoming("Kill", source, state.topic, NoneSeq, 0, NoBlob)
    /\ prev' = state
    /\ sent' = << >>
    /\ lastResult' = TRUE
    /\ storeFault' = NoFault
    /\ streams' = [a \in Targets |-> StreamEnd(a)]
    /\ UNCHANGED << phase, onExit, state, published, offline, sendErrors >>
    /\ UNCHANGED << subVars, sysVars, coordVars >>
\* PubRequest::Kill: set_on_exit(OnExit::None), then panic; the handler does
\* not return and the source of the request is not looked at
RecvKill ==
    /\ phase = "Active"
    /\ \E source \in Addrs \cup {state.parent} :
         lastMsg' = Incoming("Kill", source, state.topic, NoneSeq, 0, NoBlob)
    /\ phase' = "Terminated"
    /\ onExit' = "None"
    /\ prev' = state
    /\ sent' = << >>
    /\ lastResult' = FALSE
    /\ storeFault' = NoFault
    /\ streams' = [a \in Targets |-> StreamEnd(a)]
    /\ UNCHANGED << state, published, offline, sendErrors >>
    /\ UNCHANGED << subVars, sysVars, coordVars >>

\* an address stops being reachable (environment)
GoOffline ==
    /\ \E a \in OfflineCandidates \ offline : offline' = offline \cup {a}
    /\ UNCHANGED << phase, state, prev, lastMsg, sent, lastResult, published,
                    onExit, sendErrors, storeFault, streams >>
    /\ UNCHANGED << subVars, sysVars, coordVars >>

\* await_message() returns Err(send_error): the loop prints it
RecvSendError ==
    /\ phase = "Active"
    /\ \E a \in sendErrors :
         /\ sendErrors' = sendErrors \ {a}
         /\ lastMsg' = Incoming("SendError", a, state.topic, NoneSeq, 0, NoBlob)
    /\ prev' = state
    /\ sent' = << >>
    /\ lastResult' = TRUE
    /\ storeFault' = NoFault
    /\ streams' = [a \in Targets |-> StreamEnd(a)]
    /\ UNCHANGED << phase, state, published, onExit, offline >>
    /\ UNCHANGED << subVars, sysVars, coordVars >>

\* the store calls add_message makes on history h
StoreCalls(h) ==
    IF h.persistence.tier # "Disk" THEN {}
    ELSE {"set"} \cup
         (IF Len(h.entries) >= h.persistence.max /\ h.entries # << >>
               /\ ~ Head(h.entries).full
          THEN {"delete"} ELSE {})

\* the keys get_messages_from(start_sequence) reads from the store
KeysRead(h, start_sequence) ==
    IF h.persistence.tier # "Disk" THEN {}
    ELSE {h.entries[i].sequence : i \in {j \in 1..Len(h.entries) :
             ~ h.entries[j].full /\ h.entries[j].sequence >= start_sequence}}

\* a Publish from the parent during which a call into the durable store
\* (kv.delete of the evicted key, or kv.set of the new one) returns an error:
\* add_message returns Err through `?` and so does the handler
RecvPublishStoreError ==
    /\ phase = "Active"
    /\ Len(published) < MaxSeq
    /\ \E topic \in Topics, sequence \in SenderSeqs, blob \in Payloads \cup {NoBlob},
          fault \in StoreFaults :
         \* the fan-out loop is not reached, its order is immaterial
         LET order == CHOOSE o \in Orders(state.subscribers) : TRUE
             h == HandlePublish(state, state.parent, topic, blob, fault, order)
         IN /\ fault \in StoreCalls(state.message_history)
            /\ Handle(Incoming("Publish", state.parent, topic, NoneSeq, sequence, blob),
                      h, Fault(fault, {}))
            /\ published' = Append(published, IF blob # NoBlob THEN blob ELSE EmptyBytes)

\* a Subscribe with from_sequence during whose replay kv.get returns an
\* error for the keys badKeys
RecvSubscribeStoreError ==
    /\ phase = "Active"
    /\ \E source \in Addrs, from_sequence \in FromSequences \ {NoneSeq} :
         \E badKeys \in SUBSET KeysRead(state.message_history, from_sequence[1]) \ {{}} :
           Handle(Incoming("Subscribe", source, state.topic, from_sequence, 0, NoBlob),
                  HandleSubscribe(state, source, state.topic, from_sequence, badKeys),
                  Fault("get", badKeys))
    /\ UNCHANGED published

\* ---------------------------------------------------- subscriber engine
\* the addresses the subscriber deals with: its parent, its publisher, the
\* processes it forwards to (other processes than the parent), and the
\* senders of the messages it receives
SubParent == "app"
SubPublisher == "pub-t"
ForwardSets == SUBSET {"x", "y"}
SubSources == {SubParent, SubPublisher, "x"}
\* the sequence numbers of the Publish requests that reach the subscriber
SubSequences == 1..MaxSeq

\* struct Subscription
Subscription(publisher, topic, last_received_seq, parent, forward_to) ==
    [publisher |-> publisher,
     topic |-> topic,
     last_received_seq |-> last_received_seq,
     parent |-> parent,
     forward_to |-> forward_to]

\* value of `subscription` while no Subscription exists yet
NoSubscription == Subscription(SubPublisher, "t", 0, SubParent, {})

\* get_state(): None, or the bytes of the saved SubscriberState
NoSaved == [some |-> FALSE, val |-> NoSubscription]
Saved(s) == [some |-> TRUE, val |-> s]

\* a message sent by the subscriber: a request (Subscribe, Unsubscribe,
\* Publish) to `to`, or the SubscribeResponse answering the init message
SubOut(kind, to, topic, from_sequence, sequence, blob, success, error) ==
    [kind |-> kind, to |-> to, topic |-> topic, from_sequence |-> from_sequence,
     sequence |-> sequence, blob |-> blob, success |-> success, error |-> error]
SubscribeTo(to, topic, from_sequence) ==
    SubOut("Subscribe", to, topic, from_sequence, 0, NoBlob, TRUE, NoError)
UnsubscribeTo(to, topic) ==
    SubOut("Unsubscribe", to, topic, NoneSeq, 0, NoBlob, TRUE, NoError)
\* body(&req).inherit(true): the request as parsed, with the blob it came with
ForwardTo(to, topic, sequence, blob) ==
    SubOut("Publish", to, topic, NoneSeq, sequence, blob, TRUE, NoError)
\* Response::new().body(&resp): answers the request being handled
RelayTo(to, resp) ==
    SubOut("SubscribeResponse", to, resp.topic, NoneSeq, 0, NoBlob,
           resp.success, resp.error)

\* what send_and_await_response(10) brings back from the publisher
NoAnswer == [kind |-> "None", success |-> FALSE, topic |-> "t", error |-> NoError]
Timeout == [kind |-> "Timeout", success |-> FALSE, topic |-> "t", error |-> NoError]
Garbled == [kind |-> "Garbled", success |-> FALSE, topic |-> "t", error |-> NoError]
Answer(success, topic, error) ==
    [kind |-> "Response", success |-> success, topic |-> topic, error |-> error]
Answers(topic) ==
    {Timeout, Garbled, Answer(FALSE, topic, TopicError(topic, "u"))}
      \cup {Answer(TRUE, t, NoError) : t \in Topics}

\* outcome of a handler of the subscriber: the state it leaves, what it
\* sent, whether it returned Ok(()), and whether it ended the process
SubHandled(st, out, ok, exits) == [state |-> st, sent |-> out, ok |-> ok, exits |-> exits]

\* process_init_message without the check of resp.success
ProcessInitMessageAnyAnswer(source, parsed, topic, from_sequence, forward_to, hasCap, answer) ==
    LET request == SubscribeTo(SubPublisher, topic, from_sequence)
        st == Subscription(SubPublisher, answer.topic,
                           IF from_sequence = NoneSeq THEN 0 ELSE from_sequence[1],
                           source, forward_to)
    IN IF ~ parsed \/ ~ hasCap THEN SubHandled(NoSubscription, << >>, FALSE, TRUE)
       ELSE IF answer.kind # "Response"
       THEN SubHandled(NoSubscription, << request >>, FALSE, TRUE)
       ELSE SubHandled(st, << request, RelayTo(source, answer) >>, TRUE, FALSE)
\* SubscriberState::process_init_message on the init message `source` sent,
\* which names its sender as parent (Sub::subscribe_from); `answer` is what
\* the publisher answers to the Subscribe
ProcessInitMessage(source, parsed, topic, from_sequence, forward_to, hasCap, answer) ==
    LET request == SubscribeTo(SubPublisher, topic, from_sequence)
        st == Subscription(SubPublisher, answer.topic,
                           IF from_sequence = NoneSeq THEN 0 ELSE from_sequence[1],
                           source, forward_to)
    IN IF ~ parsed \/ ~ hasCap THEN SubHandled(NoSubscription, << >>, FALSE, TRUE)
       ELSE IF answer.kind # "Response"
       THEN SubHandled(NoSubscription, << request >>, FALSE, TRUE)
       ELSE IF ~ answer.success
       THEN SubHandled(NoSubscription, << request, RelayTo(source, answer) >>, FALSE, TRUE)
       ELSE SubHandled(st, << request, RelayTo(source, answer) >>, TRUE, FALSE)

\* Unsubscribe honoured whoever sent it
SubHandleUnsubscribeAnySource(sub, source, topic) ==
    SubHandled(sub, << UnsubscribeTo(sub.publisher, topic) >>, FALSE, TRUE)
\* SubRequest::Unsubscribe: the request is passed on as it came, then
\* set_on_exit(OnExit::None), state.clear() and panic
SubHandleUnsubscribe(sub, source, topic) ==
    IF source = sub.parent
    THEN SubHandled(sub, << UnsubscribeTo(sub.publisher, topic) >>, FALSE, TRUE)
    ELSE SubHandled(sub, << >>, TRUE, FALSE)

\* Publish forwarded to forward_to only
SubHandlePublishPeersOnly(sub, source, topic, sequence, blob, order) ==
    IF sub.topic = topic
    THEN SubHandled([sub EXCEPT !.last_received_seq = sequence],
                    [i \in 1..Len(order) |-> ForwardTo(order[i], topic, sequence, blob)],
                    TRUE, FALSE)
    ELSE SubHandled(sub, << >>, TRUE, FALSE)
\* SubRequest::Publish; `order` is the iteration order of forward_to
SubHandlePublish(sub, source, topic, sequence, blob, order) ==
    IF sub.topic = topic
    THEN SubHandled([sub EXCEPT !.last_received_seq = sequence],
                    << ForwardTo(sub.parent, topic, sequence, blob) >> \o
                      [i \in 1..Len(order) |-> ForwardTo(order[i], topic, sequence, blob)],
                    TRUE, FALSE)
    ELSE SubHandled(sub, << >>, TRUE, FALSE)

\* SubRequest::Subscribe (resubscribe): passed on to the publisher, the
\* answer is not awaited
SubHandleSubscribeAnySource(sub, source, topic, from_sequence, hasCap) ==
    IF hasCap
    THEN SubHandled(sub, << SubscribeTo(sub.publisher, topic, from_sequence) >>,
                    TRUE, FALSE)
    ELSE SubHandled(sub, << >>, FALSE, FALSE)
SubHandleSubscribe(sub, source, topic, from_sequence, hasCap) ==
    IF source = sub.parent
    THEN IF hasCap
         THEN SubHandled(sub, << SubscribeTo(sub.publisher, topic, from_sequence) >>,
                         TRUE, FALSE)
         ELSE SubHandled(sub, << >>, FALSE, FALSE)
    ELSE SubHandled(sub, << >>, TRUE, FALSE)

SubIncoming(kind, source, topic, from_sequence, sequence, blob) ==
    [kind |-> kind, source |-> source, topic |-> topic,
     from_sequence |-> from_sequence, sequence |-> sequence, blob |-> blob]

SubInit ==
    /\ subPhase = "Uninitialized"
    /\ subscription = NoSubscription
    /\ subPrev = NoSubscription
    /\ subMsg = SubIncoming("None", SubParent, "t", NoneSeq, 0, NoBlob)
    /\ subSent = << >>
    /\ subResult = TRUE
    /\ subOnExit = "Restart"
    /\ saved = NoSaved
    /\ answered = NoAnswer

\* init() of the subscriber with no saved state: load() handles the init
\* message; on Ok the state is saved and the loop entered, on Err
\* set_on_exit(OnExit::None) and return
SubLoad(source, parsed, topic, from_sequence, forward_to, hasCap, answer) ==
    LET h == ProcessInitMessage(source, parsed, topic, from_sequence,
                                forward_to, hasCap, answer)
    IN /\ subPhase' = IF h.ok THEN "Active" ELSE "Terminated"
       /\ subscription' = h.state
       /\ saved' = IF h.ok THEN Saved(h.state) ELSE saved
       /\ subOnExit' = IF h.ok THEN subOnExit ELSE "None"
       /\ subSent' = h.sent
       /\ subResult' = h.ok
       /\ answered' = IF parsed /\ hasCap THEN answer ELSE NoAnswer
       /\ subMsg' = SubIncoming(IF parsed THEN "Init" ELSE "Malformed", source,
                                topic, from_sequence, 0, NoBlob)
       /\ subPrev' = subscription

\* the same with a publisher that answers anything
SubLoadInit ==
    /\ subPhase = "Uninitialized"
    /\ ~ saved.some
    /\ \E parsed \in BOOLEAN, topic \in Topics, from_sequence \in FromSequences,
          forward_to \in ForwardSets, hasCap \in BOOLEAN :
         \E answer \in Answers(topic) :
           SubLoad(SubParent, parsed, topic, from_sequence, forward_to, hasCap, answer)
    /\ UNCHANGED << pubVars, sysVars, coordVars >>

\* one pass of the loop in init() of the subscriber
SubHandle(msg, h) ==
    /\ subPrev' = subscription
    /\ subscription' = h.state
    /\ subSent' = h.sent
    /\ subResult' = h.ok
    /\ subMsg' = msg
    /\ subPhase' = IF h.exits THEN "Terminated" ELSE subPhase
    /\ subOnExit' = IF h.exits THEN "None" ELSE subOnExit
    /\ saved' = IF h.exits THEN NoSaved ELSE saved
    /\ UNCHANGED answered

\* the same while the publisher modelled here does nothing
SubApply(msg, h) == SubHandle(msg, h) /\ UNCHANGED << pubVars, sysVars, coordVars >>

SubRecvPublish ==
    /\ subPhase = "Active"
    /\ \E source \in SubSources, topic \in Topics, sequence \in SubSequences,
          blob \in Payloads \cup {NoBlob}, order \in Orders(subscription.forward_to) :
         SubApply(SubIncoming("Publish", source, topic, NoneSeq, sequence, blob),
                  SubHandlePublish(subscription, source, topic, sequence, blob, order))

SubRecvUnsubscribe ==
    /\ subPhase = "Active"
    /\ \E source \in SubSources, topic \in Topics :
         SubApply(SubIncoming("Unsubscribe", source, topic, NoneSeq, 0, NoBlob),
                  SubHandleUnsubscribe(subscription, source, topic))

SubRecvSubscribe ==
    /\ subPhase = "Active"
    /\ \E source \in SubSources, topic \in Topics, from_sequence \in FromSequences :
         \* the messaging capability init found is still there
         SubApply(SubIncoming("Subscribe", source, topic, from_sequence, 0, NoBlob),
                  SubHandleSubscribe(subscription, source, topic, from_sequence, TRUE))

\* ------------------------------------------------------ specifications
\* ---- messages no branch handles, timer ticks, restarts ----

TimerAddr == "timer:distro:sys"
\* a request whose body is no PubRequest / SubRequest (or a response whose
\* body is no SubResponse), a request of a variant the match leaves to
\* `_ => {}`, a response
OtherKinds == {"Undecodable", "UnknownVariant", "Response"}

\* handle_message dropping the subscribers when the body does not decode
HandleOtherResets(st, kind) ==
    Handled(IF kind = "Undecodable" THEN [st EXCEPT !.subscribers = {}] ELSE st,
            << >>, kind # "Undecodable")
\* handle_message of the publisher for such a message: serde_json::from_slice
\* fails and `?` returns the error, or nothing is done
HandleOther(st, kind) == Handled(st, << >>, kind # "Undecodable")

\* handle_message of the publisher for a message of the timer
HandleTimer(st) == Handled(st, << >>, TRUE)

\* PubConfig::default().retry_interval, in seconds
RetryInterval == 120

\* (the source is not looked at before the body is decoded)
RecvOther ==
    /\ phase = "Active"
    /\ \E kind \in OtherKinds, source \in {state.parent} :
         Apply(Incoming(kind, source, state.topic, NoneSeq, 0, NoBlob),
               HandleOther(state, kind))
    /\ UNCHANGED published

\* a tick of the timer; the sequence field of the recorded message holds
\* the seconds elapsed since the last fan-out
RecvTimer ==
    /\ phase = "Active"
    /\ \E elapsed \in {0, RetryInterval + 1} :
         Apply(Incoming("Timer", TimerAddr, state.topic, NoneSeq, elapsed, NoBlob),
               HandleTimer(state))
    /\ UNCHANGED published

\* handle_message of the subscriber for a message no branch handles: the
\* timer branch returns Ok, an undecodable body returns the error, an
\* unknown variant and a response (handle_response) do nothing
SubHandleOther(sub, kind) == SubHandled(sub, << >>, kind # "Undecodable", FALSE)

SubRecvOther ==
    /\ subPhase = "Active"
    /\ \E kind \in OtherKinds \cup {"Timer"} :
         \E source \in (IF kind = "Timer" THEN {TimerAddr} ELSE {SubPublisher}) :
           SubApply(SubIncoming(kind, source, subscription.topic, NoneSeq, 0, NoBlob),
                    SubHandleOther(subscription, kind))

\* the runtime restarts the publisher process (spawned with
\* OnExit::Restart): init() runs again, load() finds no saved state (the
\* publisher never calls set_state) and waits for an init message
PubRestart ==
    /\ phase = "Active"
    /\ onExit = "Restart"
    /\ phase' = "Uninitialized"
    /\ state' = NoState
    /\ prev' = state
    /\ lastMsg' = Incoming("Restart", OurNode, state.topic, NoneSeq, 0, NoBlob)
    /\ sent' = << >>
    /\ lastResult' = TRUE
    /\ storeFault' = NoFault
    /\ streams' = [a \in Targets |-> StreamEnd(a)]
    /\ UNCHANGED << published, onExit, offline, sendErrors >>
    /\ UNCHANGED << subVars, sysVars, coordVars >>

\* the runtime restarts the subscriber process: load() returns the state
\* saved after initialization, init() saves it again and enters the loop
SubRestart ==
    /\ subPhase = "Active"
    /\ subOnExit = "Restart"
    /\ saved.some
    /\ subscription' = saved.val
    /\ subPrev' = subscription
    /\ subMsg' = SubIncoming("Restart", SubParent, subscription.topic, NoneSeq, 0, NoBlob)
    /\ subSent' = << >>
    /\ subResult' = TRUE
    /\ saved' = Saved(saved.val)
    /\ UNCHANGED << subPhase, subOnExit, answered >>
    /\ UNCHANGED << pubVars, sysVars, coordVars >>

\* ---- one publisher and one subscriber of it ----

\* the Publish requests among the messages a handler of the publisher sent
\* to the subscriber process
ToSubscriber(out) == SelectSeq(out, LAMBDA m : m.kind = "Publish" /\ m.to = SubAddr)

\* the parent of the subscriber spawns it and sends the init message
\* (Sub::subscribe_from, forward_to = []); process_init_message sends the
\* Subscribe to the publisher and waits for the answer: the publisher
\* handles it if it is running, else the wait times out.  The replay the
\* publisher sends after its response is in flight when init returns.
SysHandshake ==
    /\ subPhase = "Uninitialized"
    /\ ~ saved.some
    /\ \E topic \in Topics, from_sequence \in FromSequences :
         LET h == HandleSubscribe(state, SubAddr, topic, from_sequence, {})
             answer == IF phase = "Active"
                       THEN Answer(h.sent[1].success, h.sent[1].topic, h.sent[1].error)
                       ELSE Timeout
         IN /\ IF phase = "Active"
               THEN /\ PubHandle(Incoming("Subscribe", SubAddr, topic, from_sequence,
                                          0, NoBlob), h, NoFault)
                    /\ inflight' = inflight \o ToSubscriber(h.sent)
               ELSE /\ UNCHANGED << phase, state, prev, lastMsg, sent, lastResult,
                                    onExit, offline, sendErrors, storeFault, streams >>
                    /\ UNCHANGED inflight
            /\ SubLoad(SubParent, TRUE, topic, from_sequence, {}, TRUE, answer)
    /\ UNCHANGED << published, forwarded, owed >>
    /\ UNCHANGED coordVars

\* the parent of the publisher publishes (Pub::publish, on the topic of the
\* publisher); what is sent to the subscriber is in flight
SysPublish ==
    /\ phase = "Active"
    /\ Len(published) < MaxSeq
    /\ \E blob \in Payloads \cup {NoBlob}, order \in Orders(state.subscribers) :
         LET h == HandlePublish(state, state.parent, state.topic, blob, "none", order)
         IN /\ PubHandle(Incoming("Publish", state.parent, state.topic, NoneSeq, 0, blob),
                         h, NoFault)
            /\ published' = Append(published, IF blob # NoBlob THEN blob ELSE EmptyBytes)
            /\ inflight' = inflight \o ToSubscriber(h.sent)
            /\ owed' = IF SubAddr \in state.subscribers /\ subPhase = "Active"
                       THEN owed \cup {state.last_sequence + 1}
                       ELSE owed
    /\ UNCHANGED forwarded
    /\ UNCHANGED << subVars, coordVars >>

\* the oldest Publish in flight reaches the subscriber
SysDeliver ==
    /\ inflight # << >>
    /\ subPhase = "Active"
    /\ \E order \in Orders(subscription.forward_to) :
         LET m == Head(inflight)
             h == SubHandlePublish(subscription, SubPublisher, m.topic, m.sequence,
                                   m.blob, order)
         IN /\ SubHandle(SubIncoming("Publish", SubPublisher, m.topic, NoneSeq,
                                     m.sequence, m.blob), h)
            /\ forwarded' = forwarded \cup
                 {h.sent[i].sequence :
                    i \in {j \in 1..Len(h.sent) : h.sent[j].to = subscription.parent}}
    /\ inflight' = Tail(inflight)
    /\ UNCHANGED owed
    /\ UNCHANGED << pubVars, coordVars >>

\* the oldest Publish in flight does not reach the subscriber (its node is
\* unreachable): the publisher gets a SendError and prints it
SysLose ==
    /\ inflight # << >>
    /\ inflight' = Tail(inflight)
    /\ UNCHANGED << forwarded, owed >>
    /\ UNCHANGED << pubVars, subVars, coordVars >>

\* the parent of the subscriber sends it an Unsubscribe: the subscriber
\* passes the request on to the publisher and ends; the publisher, if it is
\* running, handles the request that was passed on
SysUnsubscribe ==
    /\ subPhase = "Active"
    /\ \E topic \in Topics :
         /\ SubHandle(SubIncoming("Unsubscribe", SubParent, topic, NoneSeq, 0, NoBlob),
                      SubHandleUnsubscribe(subscription, SubParent, topic))
         /\ IF phase = "Active"
            THEN PubHandle(Incoming("Unsubscribe", SubAddr, topic, NoneSeq, 0, NoBlob),
                           HandleUnsubscribe(state, SubAddr, topic), NoFault)
            ELSE UNCHANGED << phase, state, prev, lastMsg, sent, lastResult,
                              onExit, offline, sendErrors, storeFault, streams >>
    /\ UNCHANGED << published, sysVars, coordVars >>

\* a publisher of another topic of the same package evicts the record of
\* sequence k: MessageHistory::new opens the store "message-history" of the
\* package, so the publishers of a package share its keys
ForeignDelete ==
    /\ phase = "Active"
    /\ state.message_history.persistence.tier = "Disk"
    /\ \E k \in DOMAIN state.message_history.kv :
         /\ state' = [state EXCEPT !.message_history.kv = KvDelete(@, k)]
         /\ lastMsg' = Incoming("ForeignDelete", OurNode, state.topic, NoneSeq, k, NoBlob)
    /\ prev' = state
    /\ sent' = << >>
    /\ lastResult' = TRUE
    /\ storeFault' = NoFault
    /\ streams' = [a \in Targets |-> StreamEnd(a)]
    /\ UNCHANGED << phase, published, onExit, offline, sendErrors >>
    /\ UNCHANGED << subVars, sysVars, coordVars >>

\* ---- the coordinators: Pub and Sub of the library ----

\* a process spawned for a topic (Pub) or for a subscription (Sub): `key`
\* is the topic or the subscription, n counts the processes spawned for it.
\* The publishers of one topic have the same name pub-<topic>, so the same
\* address one after the other
Engine(key, n) == [key |-> key, n |-> n]
\* what a call sent: the request `kind` to the process `to`
CoordSent(kind, to) == [kind |-> kind, to |-> to]
\* outcome of a call: the coordinator it leaves, what it sent, what it
\* returned ("Ok" or the error)
Done(c, out, result) == [c |-> c, sent |-> out, result |-> result]

\* Pub: publishers maps a topic to the process registered for it (0: no
\* entry); spawned counts the processes spawned per topic; killed holds the
\* processes that were sent Kill
PubNew == [publishers |-> [t \in Topics |-> 0],
           spawned |-> [t \in Topics |-> 0],
           killed |-> {}]
\* the process named pub-<topic> is running
Running(c, topic) ==
    c.spawned[topic] > 0 /\ Engine(topic, c.spawned[topic]) \notin c.killed

\* Pub::get_topic
GetTopic(c, topic) == c.publishers[topic]

\* Pub::new_topic: spawn (an error if the name is taken), send the
\* InitPubRequest, insert into publishers
NewTopic(c, topic) ==
    IF Running(c, topic) THEN Done(c, << >>, "SpawningError")
    ELSE LET n == c.spawned[topic] + 1
         IN Done([c EXCEPT !.spawned[topic] = n, !.publishers[topic] = n],
                 << CoordSent("InitPub", Engine(topic, n)) >>, "Ok")

\* Pub::publish creating a publisher on every call
PublishAlwaysCreates(c, topic) ==
    LET created == NewTopic(c, topic)
    IN IF created.result # "Ok" THEN created
       ELSE Done(created.c,
                 created.sent \o
                   << CoordSent("Publish", Engine(topic, created.c.publishers[topic])) >>,
                 "Ok")
\* Pub::publish
Publish(c, topic) ==
    IF c.publishers[topic] # 0
    THEN Done(c, << CoordSent("Publish", Engine(topic, c.publishers[topic])) >>, "Ok")
    ELSE LET created == NewTopic(c, topic)
         IN IF created.result # "Ok" THEN created
            ELSE Done(created.c,
                      created.sent \o
                        << CoordSent("Publish", Engine(topic, created.c.publishers[topic])) >>,
                      "Ok")

\* Pub::remove_topic: Kill to the registered process; publishers is not
\* touched
RemoveTopic(c, topic) ==
    IF c.publishers[topic] # 0
    THEN Done([c EXCEPT !.killed = @ \cup {Engine(topic, c.publishers[topic])}],
              << CoordSent("Kill", Engine(topic, c.publishers[topic])) >>, "Ok")
    ELSE Done(c, << >>, "Ok")

\* Sub: a subscription is a publisher address (the node of the publisher,
\* its process name follows from the topic) and a topic
PublisherNodes == {"our.os", "far.os"}
Subscriptions == {<< node, topic >> : node \in PublisherNodes, topic \in Topics}
\* what the subscriber process answers to the init message: the
\* SubscribeResponse of the publisher with success or failure, or nothing
\* within the 10 seconds (the process ended before answering)
InitOutcomes == {"success", "failure", "timeout"}

\* Sub: subscriptions maps a subscription to the number of the process
\* registered for it (0: no entry); engines lists the processes spawned,
\* each with its subscription and whether it is running; handshaken holds
\* the subscriptions whose init handshake succeeded and that were not
\* unsubscribed since (history)
SubNew == [subscriptions |-> [k \in Subscriptions |-> 0],
           engines |-> << >>,
           handshaken |-> {}]

\* Sub::subscribe_from registering the process whatever it answered
SubscribeFromAnyAnswer(c, key, outcome) ==
    IF c.subscriptions[key] # 0
    THEN Done(c, << CoordSent("Subscribe", Engine(key, c.subscriptions[key])) >>, "Ok")
    ELSE LET n == Len(c.engines) + 1
             init == << CoordSent("InitSub", Engine(key, n)) >>
         IN Done([c EXCEPT !.engines = Append(@, [key |-> key, running |-> outcome = "success"]),
                           !.subscriptions[key] = n,
                           !.handshaken = IF outcome = "success" THEN @ \cup {key} ELSE @],
                 init, "Ok")
\* Sub::subscribe_from: a Subscribe to the registered process, or spawn,
\* init message, wait for the answer, insert on success
SubscribeFrom(c, key, outcome) ==
    IF c.subscriptions[key] # 0
    THEN Done(c, << CoordSent("Subscribe", Engine(key, c.subscriptions[key])) >>, "Ok")
    ELSE LET n == Len(c.engines) + 1
             init == << CoordSent("InitSub", Engine(key, n)) >>
         IN IF outcome = "success"
            THEN Done([c EXCEPT !.engines = Append(@, [key |-> key, running |-> TRUE]),
                                !.subscriptions[key] = n,
                                !.handshaken = @ \cup {key}],
                      init, "Ok")
            ELSE Done([c EXCEPT !.engines = Append(@, [key |-> key, running |-> FALSE])],
                      init, "SubInitError")

\* Sub::unsubscribe keeping the entry
UnsubscribeKeepsEntry(c, key) ==
    IF c.subscriptions[key] # 0
    THEN Done([c EXCEPT !.engines[c.subscriptions[key]].running = FALSE,
                        !.handshaken = @ \ {key}],
              << CoordSent("Unsubscribe", Engine(key, c.subscriptions[key])) >>, "Ok")
    ELSE Done(c, << >>, "SubscriptionNotFound")
\* Sub::unsubscribe: remove the entry and send the Unsubscribe (the process
\* ends when it handles it), or SubscriptionNotFound
Unsubscribe(c, key) ==
    IF c.subscriptions[key] # 0
    THEN Done([c EXCEPT !.subscriptions[key] = 0,
                        !.engines[c.subscriptions[key]].running = FALSE,
                        !.handshaken = @ \ {key}],
              << CoordSent("Unsubscribe", Engine(key, c.subscriptions[key])) >>, "Ok")
    ELSE Done(c, << >>, "SubscriptionNotFound")

\* a call of the library by the parent process
Call(op, key) == [op |-> op, key |-> key, sent |-> << >>, result |-> "Ok"]
CoordInit ==
    /\ pubs = PubNew
    /\ subs = SubNew
    /\ coordPrev = [pubs |-> PubNew, subs |-> SubNew]
    /\ coordOp = Call("new", "t")

CallPub(op, topic, d) ==
    /\ pubs' = d.c
    /\ coordOp' = [op |-> op, key |-> topic, sent |-> d.sent, result |-> d.result]
    /\ coordPrev' = [pubs |-> pubs, subs |-> subs]
    /\ UNCHANGED subs
    /\ UNCHANGED << pubVars, subVars, sysVars >>

CallSub(op, key, d) ==
    /\ subs' = d.c
    /\ coordOp' = [op |-> op, key |-> key, sent |-> d.sent, result |-> d.result]
    /\ coordPrev' = [pubs |-> pubs, subs |-> subs]
    /\ UNCHANGED pubs
    /\ UNCHANGED << pubVars, subVars, sysVars >>

CallNewTopic ==
    \E topic \in Topics :
        /\ pubs.spawned[topic] < MaxEngines
        /\ CallPub("new_topic", topic, NewTopic(pubs, topic))

CallPublish ==
    \E topic \in Topics :
        /\ pubs.publishers[topic] # 0 \/ pubs.spawned[topic] < MaxEngines
        /\ CallPub("publish", topic, Publish(pubs, topic))

CallRemoveTopic ==
    \E topic \in Topics : CallPub("remove_topic", topic, RemoveTopic(pubs, topic))

CallSubscribeFrom ==
    \E key \in Subscriptions, outcome \in InitOutcomes :
        /\ subs.subscriptions[key] # 0 \/ Len(subs.engines) < MaxEngines
        /\ CallSub("subscribe_from", key, SubscribeFrom(subs, key, outcome))

CallUnsubscribe ==
    \E key \in Subscriptions : CallSub("unsubscribe", key, Unsubscribe(subs, key))

SysInit ==
    /\ inflight = << >>
    /\ forwarded = {}
    /\ owed = {}

Init == PubInit /\ streams = Untracked /\ SubInit /\ SysInit /\ CoordInit

\* the same with the history variable streams kept
InitStreams == PubInit /\ streams = NoStreams /\ SubInit /\ SysInit /\ CoordInit

\* the durable store never fails
Next == LoadInit \/ RecvSubscribe \/ RecvUnsubscribe \/ RecvPublish \/ RecvKill

Spec == Init /\ [][Next]_vars

\* the durable store may fail during add_message and get_messages_from
NextStoreErrors == Next \/ RecvPublishStoreError \/ RecvSubscribeStoreError

SpecStoreErrors == Init /\ [][NextStoreErrors]_vars

\* the same with timer ticks, observing what each subscriber is sent
NextStreams == NextStoreErrors \/ RecvTimer

SpecStreams == InitStreams /\ [][NextStreams]_vars

\* the publisher with a store that never fails, observing which addresses
\* unsubscribed
SpecUnsub == InitStreams /\ [][Next]_vars

\* the publisher next to another publisher of its package
NextSharedStore == Next \/ ForeignDelete

SpecSharedStore == Init /\ [][NextSharedStore]_vars

\* the publisher with subscribers that become unreachable
NextUnreachable == Next \/ GoOffline \/ RecvSendError

SpecUnreachable == Init /\ [][NextUnreachable]_vars

\* the publisher with init messages from anywhere
NextLoad == Next \/ LoadInitForeign \/ LoadInitMalformed

SpecLoad == Init /\ [][NextLoad]_vars

\* the subscriber engine
SubNext == SubLoadInit \/ SubRecvPublish \/ SubRecvUnsubscribe \/ SubRecvSubscribe

SubSpec == Init /\ [][SubNext]_vars

\* one publisher and one subscriber of it, exchanging messages
SysNextCore == LoadInit \/ SysHandshake \/ SysPublish \/ SysDeliver \/ SysLose

\* the two exchanging messages that all arrive, with messages no branch
\* handles
NextOther == LoadInit \/ SysHandshake \/ SysPublish \/ SysDeliver
                \/ RecvOther \/ SubRecvOther

SpecOther == Init /\ [][NextOther]_vars

\* the two with restarts by the runtime
NextRestart == SysNextCore \/ PubRestart \/ SubRestart

SpecRestart == Init /\ [][NextRestart]_vars

\* the two with the parent of the subscriber unsubscribing
NextUnsubscribe == SysNextCore \/ SysUnsubscribe

SpecUnsubscribe == Init /\ [][NextUnsubscribe]_vars

\* the coordinators called by the parent process
CoordNext == CallNewTopic \/ CallPublish \/ CallRemoveTopic
                \/ CallSubscribeFrom \/ CallUnsubscribe

CoordSpec == Init /\ [][CoordNext]_vars

\* both engines handle every message that reaches them, and the timer of
\* the publisher keeps ticking
NextFair == SysNextCore \/ RecvTimer

SysSpecFair ==
    Init /\ [][NextFair]_vars /\ WF_vars(SysDeliver) /\ WF_vars(RecvTimer)

\* ============================================================== claims
Active == phase = "Active"
History == state.message_history
\* the persistence policy the publisher was configured with
Tier == state.config.default_persistence
HandledKind(k) == Active /\ lastMsg.kind = k
\* the last handled message was a Publish from the parent
AcceptedPublish == HandledKind("Publish") /\ lastMsg.source = prev.parent
StartSequences == 0..(MaxSeq + 1)
SentPublishes == {i \in 1..Len(sent) : sent[i].kind = "Publish"}

C2_HistoryBounded ==
    (Active /\ Tier.tier \in {"Memory", "Disk"}) =>
        HistoryLen(History) <= History.persistence.max

\* the retained entries with sequence >= s, oldest first, each with the
\* payload that was published under its sequence
RetainedFrom(s) ==
    SelectSeq([i \in 1..Len(History.entries) |->
                  Message(History.entries[i].sequence,
                          published[History.entries[i].sequence])],
              LAMBDA m : m.sequence >= s)

\* C3: get_messages_from(s) returns exactly the retained entries with
\* sequence >= s, in ascending order.
C3_ReadFrom ==
    Active => \A s \in StartSequences :
        GetMessagesFrom(History, s, {}) = Ok(RetainedFrom(s))

\* C4: with Memory(k), after k+1 accepted publishes, get_messages_from(1)
\* returns exactly the messages 2..k+1 with the payloads they were published
\* with.
C4_MemoryEviction ==
    (Active /\ Tier.tier = "Memory" /\ Len(published) = Tier.max + 1) =>
        GetMessagesFrom(History, 1, {}) =
            Ok([i \in 1..Tier.max |-> Message(i + 1, published[i + 1])])

\* C5: with Disk(k), after k+1 accepted publishes, the store holds no record
\* under the evicted (oldest) sequence, reading that sequence returns
\* nothing, and the k newer keys are held.
C5_DiskEviction ==
    (Active /\ Tier.tier = "Disk" /\ Len(published) = Tier.max + 1) =>
        /\ 1 \notin DOMAIN History.kv
        /\ ~ KvGet(History.kv, 1, {}).ok
        /\ LET read == GetMessagesFrom(History, 1, {})
           IN read.ok => \A i \in 1..Len(read.val) : read.val[i].sequence # 1
        /\ \A k \in 2..(Tier.max + 1) : k \in DOMAIN History.kv

\* C6: with tier None, get_messages_from(s) is empty for every s whatever
\* was published, and a Subscribe with any from_sequence is sent no replayed
\* message.
C6_NoneTier ==
    (Active /\ Tier.tier = "None") =>
        /\ \A s \in StartSequences : GetMessagesFrom(History, s, {}) = Ok(<< >>)
        /\ HandledKind("Subscribe") => SentPublishes = {}

C6_Witness ==
    /\ HandledKind("Subscribe")
    /\ Tier.tier = "None"
    /\ Len(published) >= 2
    /\ lastMsg.from_sequence = SomeSeq(1)
    /\ lastMsg.source \in state.subscribers
    /\ sent[1].success

\* C7: a Subscribe for a topic the publisher does not serve is answered with
\* success=false and a non-empty error; the requester is not added, nothing
\* is replayed and the publisher state is unchanged.
C7_SubscribeUnservedTopic ==
    (HandledKind("Subscribe") /\ lastMsg.topic # prev.topic) =>
        /\ Len(sent) = 1
        /\ sent[1].kind = "SubscribeResponse"
        /\ sent[1].to = lastMsg.source
        /\ sent[1].success = FALSE
        /\ Len(sent[1].error) > 0
        /\ state.subscribers = prev.subscribers
        /\ state = prev

C7_Witness ==
    /\ HandledKind("Subscribe")
    /\ lastMsg.topic # prev.topic
    /\ lastMsg.from_sequence = SomeSeq(1)
    /\ lastMsg.source \notin prev.subscribers
    /\ prev.subscribers # {}
    /\ Len(prev.message_history.entries) >= 1

\* C8: an Unsubscribe for the served topic from an address that is not
\* subscribed is answered with success=true and leaves the subscriber set
\* unchanged; unsubscribing an address a second time leaves the state and
\* the answer of the first time.
C8_UnsubscribeIdempotent ==
    (HandledKind("Unsubscribe") /\ lastMsg.topic = prev.topic) =>
        /\ lastMsg.source \notin prev.subscribers =>
             /\ sent = << SubscribeResponse(lastMsg.source, TRUE, lastMsg.topic, NoError) >>
             /\ state.subscribers = prev.subscribers
             /\ state = prev
        /\ LET again == HandleUnsubscribe(state, lastMsg.source, lastMsg.topic)
           IN again.state = state /\ again.sent = sent

C8_Witness ==
    /\ HandledKind("Unsubscribe")
    /\ lastMsg.topic = prev.topic
    /\ lastMsg.source \notin prev.subscribers
    /\ prev.subscribers # {}
    /\ sent[1].success

\* C9 as stated: every Unsubscribe is answered with success=true, whether or
\* not its topic is the served one; the source is removed only when it is.
C9_UnsubscribeAlwaysSuccess ==
    HandledKind("Unsubscribe") =>
        /\ Len(sent) = 1
        /\ sent[1].success = TRUE
        /\ state.subscribers = IF lastMsg.topic = prev.topic
                               THEN prev.subscribers \ {lastMsg.source}
                               ELSE prev.subscribers

\* C9 amended: an Unsubscribe is answered with success=true when its topic is
\* the served one and with success=false and a non-empty error otherwise;
\* the source is removed from the subscriber set only when the topic matches,
\* and nothing else changes.
C9_UnsubscribeAnswer ==
    HandledKind("Unsubscribe") =>
        /\ Len(sent) = 1
        /\ sent[1].kind = "SubscribeResponse"
        /\ sent[1].to = lastMsg.source
        /\ sent[1].topic = lastMsg.topic
        /\ sent[1].success = (lastMsg.topic = prev.topic)
        /\ (Len(sent[1].error) > 0) = (lastMsg.topic # prev.topic)
        /\ state = [prev EXCEPT !.subscribers =
                       IF lastMsg.topic = prev.topic THEN @ \ {lastMsg.source} ELSE @]

C9_Witness ==
    /\ HandledKind("Unsubscribe")
    /\ lastMsg.topic # prev.topic
    /\ lastMsg.source \in prev.subscribers
    /\ lastMsg.source \in state.subscribers
    /\ sent[1].success = FALSE

\* C10: a Publish whose source is not the parent is a silent no-op: nothing
\* is sent (no fan-out, no response), and the history, the sequence counter
\* and the subscriber set are as before.
C10_PublishNotParent ==
    (HandledKind("Publish") /\ lastMsg.source # prev.parent) =>
        /\ sent = << >>
        /\ state.message_history = prev.message_history
        /\ state.last_sequence = prev.last_sequence
        /\ state.subscribers = prev.subscribers
        /\ state = prev
        /\ lastResult

C10_Witness ==
    /\ HandledKind("Publish")
    /\ lastMsg.source # prev.parent
    /\ lastMsg.source \in prev.subscribers
    /\ Cardinality(prev.subscribers) >= 2
    /\ Len(prev.message_history.entries) >= 1
    /\ lastMsg.blob \in Payloads

\* the bytes an accepted Publish is stored and fanned out with
PublishedBytes == IF lastMsg.blob # NoBlob THEN lastMsg.blob ELSE EmptyBytes

\* C11: an accepted Publish handled while the subscriber set is S sends
\* exactly one Publish, carrying the new sequence number and the published
\* payload, to each address of S and nothing to any other address; an
\* address that subscribed twice is in S once.
C11_FanOut ==
    /\ (AcceptedPublish /\ lastResult) =>
         /\ Len(sent) = Cardinality(prev.subscribers)
         /\ \A i \in 1..Len(sent) : sent[i].to \in prev.subscribers
         /\ \A a \in prev.subscribers :
              \E i \in 1..Len(sent) :
                /\ sent[i] = PublishTo(a, lastMsg.topic, prev.last_sequence + 1,
                                       PublishedBytes)
                /\ \A j \in 1..Len(sent) : sent[j].to = a => j = i
    /\ (HandledKind("Subscribe") /\ lastMsg.source \in prev.subscribers) =>
         state.subscribers = prev.subscribers
C11_Witness ==
    /\ AcceptedPublish /\ lastResult
    /\ Cardinality(prev.subscribers) = 2
    /\ Len(sent) = 2
    /\ sent[1].to # sent[2].to

\* C12: in the fan-out of an accepted Publish, a subscriber that cannot be
\* reached does not keep the Publish from being sent to every other
\* subscriber.
C12_FanOutNotBlocked ==
    AcceptedPublish =>
        \A u \in prev.subscribers \cap (offline \cup sendErrors) :
          \A a \in prev.subscribers \ {u} :
            \E i \in 1..Len(sent) :
              sent[i] = PublishTo(a, lastMsg.topic, prev.last_sequence + 1,
                                  PublishedBytes)
\* the first send of the fan-out went to an unreachable subscriber and a
\* reachable one was sent to after it
C12_Witness ==
    /\ AcceptedPublish /\ lastResult
    /\ Len(sent) = 2
    /\ sent[1].to \in sendErrors
    /\ sent[2].to \notin offline

\* C13: a successful Subscribe with from_sequence = s sends the
\* SubscribeResponse first and then, to the new subscriber only, one Publish
\* per retained entry with sequence >= s, in ascending order, each with the
\* sequence and payload it was published with.
C13_SubscribeReplay ==
    (HandledKind("Subscribe") /\ lastMsg.topic = prev.topic
       /\ lastMsg.from_sequence # NoneSeq) =>
        LET replay == RetainedFrom(lastMsg.from_sequence[1])
        IN sent = << SubscribeResponse(lastMsg.source, TRUE, lastMsg.topic, NoError) >>
                    \o [i \in 1..Len(replay) |->
                          PublishTo(lastMsg.source, state.topic,
                                    replay[i].sequence, replay[i].content)]

\* the sender of an init message is in the publisher's owner scope
InScope(a) == NodeOf(a) = OurNode /\ PackageOf(a) = OurPackage

\* C18: the publisher becomes Active only on an init message from its own
\* node and package; an init message from any other source, or a malformed
\* one, ends the process without restart and it is never Active.
C18_InitScope ==
    /\ Active => InScope(state.parent)
    /\ (lastMsg.kind = "Malformed"
          \/ (lastMsg.kind = "Init" /\ ~ InScope(lastMsg.source))) =>
         (phase = "Terminated" /\ onExit = "None")

\* C19: once the publisher has handled Kill it is Terminated and will not be
\* restarted, the Kill made it send nothing, and it takes no further step:
\* it handles no later message and sends nothing afterwards.
C19_KillTerminates ==
    /\ [](lastMsg.kind = "Kill" =>
            (phase = "Terminated" /\ onExit = "None" /\ sent = << >>))
    /\ [][lastMsg.kind = "Kill" => pubVars' = pubVars]_vars
C19_Witness ==
    /\ lastMsg.kind = "Kill"
    /\ phase = "Terminated"
    /\ prev.subscribers # {}
    /\ prev.last_sequence > 0

\* C20: a Kill terminates the publisher only if its source is the parent; a
\* Kill from any other address leaves it Active with its state unchanged.
C20_KillOnlyFromParent ==
    lastMsg.kind = "Kill" =>
        IF lastMsg.source = prev.parent
        THEN phase = "Terminated"
        ELSE phase = "Active" /\ state = prev

SubActive == subPhase = "Active"
\* the last message the subscriber handled was a Publish on its topic
MatchingPublish == subMsg.kind = "Publish" /\ subMsg.topic = subPrev.topic
Forwarded(a) == ForwardTo(a, subMsg.topic, subMsg.sequence, subMsg.blob)

\* C14: an Active subscriber with forward_to = F that receives a Publish on
\* its topic sends the same Publish (topic, sequence, payload) exactly once
\* to its parent and exactly once to each address of F, nothing else, and
\* its last_received_seq becomes the incoming sequence.
C14_Forward ==
    (SubActive /\ MatchingPublish) =>
        /\ Len(subSent) = 1 + Cardinality(subPrev.forward_to)
        /\ \A a \in {subPrev.parent} \cup subPrev.forward_to :
             \E i \in 1..Len(subSent) :
               /\ subSent[i] = Forwarded(a)
               /\ \A j \in 1..Len(subSent) : subSent[j].to = a => j = i
        /\ subscription.last_received_seq = subMsg.sequence
C14_Witness ==
    /\ SubActive /\ MatchingPublish
    /\ Cardinality(subPrev.forward_to) = 2
    /\ Len(subSent) = 3
    /\ subscription.last_received_seq = MaxSeq

\* C15: last_received_seq never decreases: handling a message never lowers
\* it, and a Publish on the subscriber's topic sets it to the maximum of its
\* value and the incoming sequence.
C15_LastReceivedMonotonic ==
    SubActive =>
        /\ subscription.last_received_seq >= subPrev.last_received_seq
        /\ MatchingPublish =>
             subscription.last_received_seq =
                 (IF subPrev.last_received_seq >= subMsg.sequence
                  THEN subPrev.last_received_seq ELSE subMsg.sequence)

AnsweredSuccess == answered.kind = "Response" /\ answered.success
FromOrZero(from_sequence) == IF from_sequence = NoneSeq THEN 0 ELSE from_sequence[1]

\* C17: if the publisher answers the Subscribe of the initialization with
\* success, the subscriber stores the subscription with last_received_seq =
\* from_sequence or 0, relays the response to the parent and is Active; if
\* the answer is a failure or none arrives in time, it terminates with
\* OnExit::None and is never Active.
C17_SubscriberInit ==
    /\ []((subMsg.kind = "Init" /\ AnsweredSuccess) =>
            /\ subPhase = "Active"
            /\ subscription.last_received_seq = FromOrZero(subMsg.from_sequence)
            /\ subscription.topic = answered.topic
            /\ saved = Saved(subscription)
            /\ subSent = << SubscribeTo(subscription.publisher, subMsg.topic,
                                        subMsg.from_sequence),
                            RelayTo(subscription.parent, answered) >>)
    /\ []((subMsg.kind = "Init" /\ ~ AnsweredSuccess) =>
            /\ subPhase = "Terminated"
            /\ subOnExit = "None"
            /\ ~ saved.some)
    /\ [][(subMsg.kind = "Init" /\ ~ AnsweredSuccess) => subVars' = subVars]_vars
C17_Witness ==
    /\ subMsg.kind = "Init"
    /\ AnsweredSuccess
    /\ subMsg.from_sequence = SomeSeq(2)
    /\ subscription.last_received_seq = 2
    /\ subPhase = "Active"

\* a store call failed while the last message was handled
StoreFailed == storeFault.call # "none"

\* C21: a durable-store error met in add_message (set, delete) or in
\* get_messages_from (get) makes the operation return an error: the Publish
\* or Subscribe that met it returns Err, so no successful replay leaves out
\* a retained entry whose payload could not be read.
C21_StoreErrorsPropagate ==
    /\ (AcceptedPublish /\ storeFault.call \in StoreFaults) => ~ lastResult
    /\ (HandledKind("Subscribe") /\ storeFault.call = "get") =>
         /\ ~ GetMessagesFrom(History, lastMsg.from_sequence[1], storeFault.keys).ok
         /\ ~ lastResult

\* C22: a store error during the append of an accepted Publish aborts only
\* that Publish: nothing is sent, the publisher stays Active, and
\* last_sequence, the history and the subscriber set are as before the
\* request.
C22_StoreErrorAbortsPublish ==
    (lastMsg.kind = "Publish" /\ lastMsg.source = prev.parent
       /\ storeFault.call \in StoreFaults) =>
        /\ sent = << >>
        /\ phase = "Active"
        /\ state.last_sequence = prev.last_sequence
        /\ state.message_history = prev.message_history
        /\ state.subscribers = prev.subscribers

\* MessageHistory::get_latest_sequence, 0 for None
LatestSequence(h) ==
    IF h.entries = << >> THEN 0 ELSE h.entries[Len(h.entries)].sequence

Window(a) ==
    (IF streams[a] > 0 THEN << streams[a] >> ELSE << >>) \o SentTo(sent, a)

\* C30: the Publish requests sent to a subscriber from a successful
\* Subscribe with from_sequence until its next Subscribe or Unsubscribe
\* carry consecutive increasing sequence numbers, the replay first and the
\* live publishes after it without a gap.
C30_OrderedDelivery ==
    \A a \in Targets :
        streams[a] >= 0 =>
            \A i \in 1..(Len(Window(a)) - 1) : Window(a)[i + 1] = Window(a)[i] + 1

\* C26: for every Publish on its topic that the subscriber receives from its
\* publisher, it sends an Ack with the topic and that sequence back to the
\* publisher.
C26_Acknowledge ==
    (SubActive /\ MatchingPublish /\ subMsg.source = subPrev.publisher) =>
        \E i \in 1..Len(subSent) :
            /\ subSent[i].kind = "Ack"
            /\ subSent[i].to = subPrev.publisher
            /\ subSent[i].topic = subMsg.topic
            /\ subSent[i].sequence = subMsg.sequence

\* C27: an Active subscriber that receives a Subscribe from its parent sends
\* one Subscribe with the same topic and from_sequence to its publisher and
\* keeps its subscription; a Subscribe from any other source sends nothing
\* and changes nothing.
C27_Resubscribe ==
    (subMsg.kind = "Subscribe" /\ subPhase # "Uninitialized") =>
        /\ SubActive
        /\ subResult
        /\ subscription = subPrev
        /\ subSent = IF subMsg.source = subPrev.parent
                     THEN << SubscribeTo(subPrev.publisher, subMsg.topic,
                                         subMsg.from_sequence) >>
                     ELSE << >>
C27_Witness ==
    /\ subMsg.kind = "Subscribe"
    /\ subMsg.source = subPrev.parent
    /\ subMsg.topic = subPrev.topic
    /\ subMsg.from_sequence # NoneSeq
    /\ Len(subSent) = 1
    /\ subSent[1].to = subscription.publisher
    /\ subscription.last_received_seq > 0

\* C24: an undecodable message, a request of an unknown variant or an
\* unexpected message (a response) received by an Active publisher or
\* subscriber is dropped: the state is unchanged, nothing is sent, and the
\* engine stays Active.
C24_DropUnexpected ==
    /\ lastMsg.kind \in OtherKinds =>
         /\ Active
         /\ state = prev
         /\ sent = << >>
    /\ subMsg.kind \in OtherKinds =>
         /\ SubActive
         /\ subscription = subPrev
         /\ subSent = << >>
C24_Witness ==
    /\ lastMsg.kind = "Undecodable"
    /\ ~ lastResult
    /\ state.subscribers # {}
    /\ state.last_sequence > 0
    /\ subMsg.kind = "Undecodable"
    /\ ~ subResult
    /\ subscription.last_received_seq > 0

\* C25: at a timer tick later than retry_interval the publisher resends the
\* unacknowledged Publish of each subscriber (the publisher receives no
\* acknowledgement, so the last Publish sent to a subscriber is pending and
\* was sent at most once).
C25_TimerRetry ==
    (HandledKind("Timer") /\ lastMsg.sequence > RetryInterval) =>
        \A a \in state.subscribers :
            streams[a] > 0 =>
                \E i \in SentPublishes :
                    /\ sent[i].to = a
                    /\ sent[i].sequence = streams[a]

\* C28: a restarted engine resumes with its entire state of the moment
\* before the restart (the publisher its topic, last_sequence, subscribers
\* and history, the subscriber its subscription with the latest
\* last_received_seq), so the sequence number of an accepted Publish was
\* never assigned before.
C28_RestartResumes ==
    /\ lastMsg.kind = "Restart" =>
         /\ Active
         /\ state = prev
    /\ subMsg.kind = "Restart" =>
         /\ SubActive
         /\ subscription = subPrev
    /\ AcceptedPublish => state.last_sequence = Len(published)

\* C29: every Publish the publisher accepts while the subscriber is
\* subscribed and running is eventually forwarded by the subscriber to its
\* parent.
C29_AtLeastOnce ==
    \A n \in 1..MaxSeq : (n \in owed) ~> (n \in forwarded)

\* C35: once the publisher has handled an Unsubscribe for its topic from an
\* address, no accepted Publish is sent to that address until it subscribes
\* again with success; the Unsubscribe removes that address only, and every
\* remaining subscriber is still sent each accepted Publish.
C35_NoPublishAfterUnsubscribe ==
    /\ AcceptedPublish =>
         /\ \A a \in Targets : streams[a] = Unsubscribed => SentTo(sent, a) = << >>
         /\ \A a \in state.subscribers : Len(SentTo(sent, a)) = 1
    /\ (HandledKind("Unsubscribe") /\ lastMsg.topic = prev.topic) =>
         state.subscribers = prev.subscribers \ {lastMsg.source}
    /\ \A a \in Targets : streams[a] = Unsubscribed => a \notin state.subscribers
C35_Witness ==
    /\ AcceptedPublish
    /\ streams["s1"] = Unsubscribed
    /\ state.subscribers = {"app"}
    /\ Len(sent) = 1
    /\ prev.last_sequence > 0

\* the sequence numbers of the index of a history
Pointers(h) == {h.entries[i].sequence : i \in 1..Len(h.entries)}

\* C37: on the Disk tier the keys held in the durable store are the
\* sequence pointers of the index, in every reachable state, those after a
\* failed add_message included.
C37_StoreMatchesIndex ==
    (Active /\ Tier.tier = "Disk") => DOMAIN History.kv = Pointers(History)

\* C39: with tier Memory(n) or Disk(n), n >= 1, the history holds the
\* sequences max(1, last_sequence - n + 1) .. last_sequence in ascending
\* order, so get_latest_sequence is last_sequence once a Publish was
\* accepted.
C39_RetainedWindow ==
    (Active /\ Tier.tier \in {"Memory", "Disk"} /\ Tier.max >= 1) =>
        LET lo == IF state.last_sequence - Tier.max + 1 > 1
                  THEN state.last_sequence - Tier.max + 1 ELSE 1
        IN /\ Len(History.entries) = state.last_sequence - lo + 1
           /\ \A i \in 1..Len(History.entries) : History.entries[i].sequence = lo + i - 1
           /\ state.last_sequence > 0 => LatestSequence(History) = state.last_sequence

\* C40: a Publish that reaches the subscriber from an address other than
\* its publisher is neither forwarded nor recorded, so what the subscriber
\* forwards and records are sequence numbers its publisher assigned.
C40_OnlyFromPublisher ==
    (SubActive /\ subMsg.kind = "Publish" /\ subMsg.source # subPrev.publisher) =>
        /\ subSent = << >>
        /\ subscription = subPrev

\* C36: once the subscriber has ended through an Unsubscribe of its parent
\* and the publisher has handled the Unsubscribe passed on to it, the
\* address of the subscriber is not in the publisher's subscriber set and
\* no accepted Publish is sent to it, whatever topic the request carried.
C36_TerminatedSubscriberRemoved ==
    (subPhase = "Terminated" /\ subMsg.kind = "Unsubscribe" /\ Active) =>
        /\ SubAddr \notin state.subscribers
        /\ AcceptedPublish => SentTo(sent, SubAddr) = << >>

\* the last accepted Publish evicted a pointer whose key the store did not
\* hold, and no store call failed
EvictedAbsent ==
    /\ AcceptedPublish
    /\ prev.message_history.persistence.tier = "Disk"
    /\ storeFault = NoFault
    /\ prev.message_history.entries # << >>
    /\ Len(prev.message_history.entries) >= prev.message_history.persistence.max
    /\ Head(prev.message_history.entries).sequence \notin DOMAIN prev.message_history.kv

WasRegistered == coordPrev.pubs.publishers[coordOp.key]

\* C31: publish on a topic with no registered publisher creates one
\* publisher process, sends it the InitPubRequest and then one Publish, and
\* returns Ok; publish on a registered topic sends one Publish to the
\* registered process and creates none.
C31_PublishCreatesOnce ==
    coordOp.op = "publish" =>
        LET t == coordOp.key
            e == Engine(t, pubs.publishers[t])
        IN /\ coordOp.result = "Ok"
           /\ IF WasRegistered = 0
              THEN /\ pubs.spawned[t] = coordPrev.pubs.spawned[t] + 1
                   /\ pubs.publishers[t] = pubs.spawned[t]
                   /\ coordOp.sent = << CoordSent("InitPub", e), CoordSent("Publish", e) >>
              ELSE /\ pubs = coordPrev.pubs
                   /\ coordOp.sent = << CoordSent("Publish", Engine(t, WasRegistered)) >>
C31_Witness ==
    /\ coordOp.op = "publish"
    /\ WasRegistered # 0
    /\ pubs.spawned[coordOp.key] = 1
    /\ Len(coordOp.sent) = 1
    /\ pubs.killed = {}

\* C32: remove_topic removes the topic and its publisher: afterwards
\* get_topic returns None and the process was sent Kill, and no later
\* publish sends a Publish to a process that was sent Kill.
C32_RemoveTopic ==
    /\ coordOp.op = "remove_topic" =>
         /\ GetTopic(pubs, coordOp.key) = 0
         /\ WasRegistered # 0 =>
              coordOp.sent = << CoordSent("Kill", Engine(coordOp.key, WasRegistered)) >>
    /\ coordOp.op = "publish" =>
         \A i \in 1..Len(coordOp.sent) : coordOp.sent[i].to \notin pubs.killed

\* the number of the process the last call of Sub found registered, 0 if none
WasSubscribed == coordPrev.subs.subscriptions[coordOp.key]
\* the running subscriber processes of a subscription
RunningFor(key) ==
    {i \in 1..Len(subs.engines) : subs.engines[i].key = key /\ subs.engines[i].running}

\* C33: the registry holds an entry for a subscription exactly when its
\* init handshake succeeded and it was not unsubscribed since, and at most
\* one subscriber process runs for it; subscribe_from for a registered
\* subscription spawns nothing and sends one Subscribe to the registered
\* process; a failed handshake leaves the registry as it was.
C33_OneSubscriberPerSubscription ==
    /\ \A key \in Subscriptions :
         /\ subs.subscriptions[key] # 0 <=> key \in subs.handshaken
         /\ Cardinality(RunningFor(key)) <= 1
         /\ subs.subscriptions[key] # 0 => RunningFor(key) = {subs.subscriptions[key]}
    /\ coordOp.op = "subscribe_from" =>
         IF WasSubscribed # 0
         THEN /\ subs = coordPrev.subs
              /\ coordOp.sent = << CoordSent("Subscribe", Engine(coordOp.key, WasSubscribed)) >>
         ELSE /\ Len(subs.engines) = Len(coordPrev.subs.engines) + 1
              /\ coordOp.result # "Ok" =>
                   subs.subscriptions = coordPrev.subs.subscriptions
C33_Witness ==
    /\ coordOp.op = "subscribe_from"
    /\ WasSubscribed # 0
    /\ Len(subs.engines) = 2
    /\ ~ subs.engines[1].running
    /\ Cardinality(subs.handshaken) = 1

\* C34: unsubscribe of a registered subscription removes the entry and
\* sends one Unsubscribe to its process; of an unregistered one it returns
\* SubscriptionNotFound, sends nothing and leaves the registry as it was,
\* so unsubscribing again returns SubscriptionNotFound.
C34_Unsubscribe ==
    coordOp.op = "unsubscribe" =>
        /\ IF WasSubscribed # 0
           THEN /\ coordOp.result = "Ok"
                /\ coordOp.sent =
                     << CoordSent("Unsubscribe", Engine(coordOp.key, WasSubscribed)) >>
                /\ subs.subscriptions =
                     [coordPrev.subs.subscriptions EXCEPT ![coordOp.key] = 0]
           ELSE /\ coordOp.result = "SubscriptionNotFound"
                /\ coordOp.sent = << >>
                /\ subs = coordPrev.subs
        /\ Unsubscribe(subs, coordOp.key) = Done(subs, << >>, "SubscriptionNotFound")
C34_Witness ==
    /\ coordOp.op = "unsubscribe"
    /\ WasSubscribed # 0
    /\ coordOp.result = "Ok"
    /\ Cardinality(subs.handshaken) = 1

====
